---------------------------- MODULE Spec2Model ----------------------------
(***************************************************************************)
(* Sound-therapy generator: band table, XorShift32, WAV writer,            *)
(* generateFile / generateSoundFiles and the /api/generate handler.        *)
(*                                                                         *)
(* Numbers.  TLC integers are 32 bits wide, so                             *)
(*   - a 32-bit unsigned word is a pair <<hi, lo>> of 16-bit halves;       *)
(*   - an IEEE-754 double in [0, 32) that is a multiple of 2^-52 is a      *)
(*     big-endian sequence of five 13-bit limbs <<a0,..,a4>> with value    *)
(*     a0 + a1/2^13 + a2/2^26 + a3/2^39 + a4/2^52.  Every double that      *)
(*     nearestMatchKeyKHz computes for 1000 <= freqHz < 32000 has this     *)
(*     form, and each operation below rounds to 53 significant bits,       *)
(*     ties to even, as the double operation does.                         *)
(***************************************************************************)
EXTENDS Integers, Sequences, FiniteSets, TLC

VARIABLES
    req,            \* the request as posted / as passed by a direct caller
    now,            \* Date.now() seen by generateSoundFiles: <<bits above 31, hi, lo>>
    pc,             \* control location of the request
    call,           \* the arguments generateSoundFiles was called with
    matchKey,       \* generateSoundFiles: matchKey (thousandths of a kHz)
    activeBandIdx,  \* generateSoundFiles: activeBandIdx
    shamBandIdx,    \* generateSoundFiles: shamBandIdx
    role,           \* which generateFile call runs: "active" or "sham"
    rng,            \* generateFile: rng.state
    b,              \* generateFile: the loop index b
    fd,             \* per path: the descriptor's state and file position
    files,          \* per path: the file in the generated directory
    http,           \* the response of /api/generate
    client,         \* the peer of the response: "connected" or "gone"
    result,         \* what generateSoundFiles returned, or NoResult
    hist,           \* history: counters that record what has happened
    other,          \* a second request served by the same process
    dsp,            \* a call of one of the signal functions: input and output
    ui              \* the pitch-match card of the page: React state and calls

vars == <<req, now, pc, call, matchKey, activeBandIdx, shamBandIdx, role, rng,
          b, fd, files, http, client, result, hist, other, dsp, ui>>

null == 0 - 1

(***************************************************************************)
(* Double arithmetic on limb sequences                                     *)
(***************************************************************************)
Limb == 2^13

Front(s) == SubSeq(s, 1, Len(s) - 1)

\* floor(log2(n)) for 1 <= n < 2^13
RECURSIVE Log2Floor(_)
Log2Floor(n) == IF n <= 1 THEN 0 ELSE 1 + Log2Floor(n \div 2)

\* s + c at the last limb, the carry moving up
RECURSIVE AddLow(_, _)
AddLow(s, c) ==
    IF Len(s) = 0 THEN <<>>
    ELSE LET v == s[Len(s)] + c
         IN  Append(AddLow(Front(s), v \div Limb), v % Limb)

\* x - y - borrow for x >= y, limb by limb from the last
RECURSIVE SubLimbs(_, _, _)
SubLimbs(x, y, borrow) ==
    IF Len(x) = 0 THEN <<>>
    ELSE LET v == x[Len(x)] - y[Len(y)] - borrow
         IN  Append(SubLimbs(Front(x), Front(y), IF v < 0 THEN 1 ELSE 0),
                    IF v < 0 THEN v + Limb ELSE v)

\* x < y on doubles
FLess(x, y) ==
    \E i \in 1..Len(x) : x[i] < y[i] /\ \A j \in 1..(i - 1) : x[j] = y[j]

\* Round the exact value a0..a5 (six limbs, plus a sticky flag for what lies
\* below a5) to 53 significant bits, ties to even.  The leading bit is bit
\* Log2Floor(a0) of a0, so the bits dropped are a5 and the low e bits of a4.
Round53(limbs, sticky) ==
    LET a0   == limbs[1]
        a4   == limbs[5]
        e    == Log2Floor(a0)
        unit == 2^e
        drop == (a4 % unit) * Limb + limbs[6]
        half == (unit * Limb) \div 2
        kept == <<limbs[1], limbs[2], limbs[3], limbs[4], a4 - (a4 % unit)>>
        odd  == (a4 \div unit) % 2 = 1
        up   == drop > half \/ (drop = half /\ (sticky \/ odd))
    IN  IF a0 = 0 THEN SubSeq(limbs, 1, 5)      \* below 1: exact on this grid
        ELSE IF up THEN AddLow(kept, unit) ELSE kept

\* freqHz / 1000 as a double, for an integer 1000 <= freqHz < 32000 (the
\* integer and 1000 are exact doubles; the quotient is rounded once)
FDiv1000(freqHz) ==
    LET q0 == freqHz \div 1000
        r0 == freqHz % 1000
        q1 == (r0 * Limb) \div 1000
        r1 == (r0 * Limb) % 1000
        q2 == (r1 * Limb) \div 1000
        r2 == (r1 * Limb) % 1000
        q3 == (r2 * Limb) \div 1000
        r3 == (r2 * Limb) % 1000
        q4 == (r3 * Limb) \div 1000
        r4 == (r3 * Limb) % 1000
        q5 == (r4 * Limb) \div 1000
        r5 == (r4 * Limb) % 1000
    IN  Round53(<<q0, q1, q2, q3, q4, q5>>, r5 # 0)

\* Math.abs(x - y) as a double
FAbsDiff(x, y) ==
    LET hi == IF FLess(x, y) THEN y ELSE x
        lo == IF FLess(x, y) THEN x ELSE y
    IN  Round53(Append(SubLimbs(hi, lo, 0), 0), FALSE)

(***************************************************************************)
(* Table 1 band mapping                                                    *)
(***************************************************************************)
BANDS == <<
    [name |-> "1-2k",     lo |-> 1000, hi |-> 2000],
    [name |-> "1.4-2.8k", lo |-> 1400, hi |-> 2800],
    [name |-> "2-4k",     lo |-> 2000, hi |-> 4000],
    [name |-> "2.8-5.7k", lo |-> 2800, hi |-> 5700],
    [name |-> "4-8k",     lo |-> 4000, hi |-> 8000],
    [name |-> "5.7-11k",  lo |-> 5700, hi |-> 11000],
    [name |-> "8-16k",    lo |-> 8000, hi |-> 16000] >>

\* BANDS[i] of the source (0-based) is BandAt(i)
BandAt(i) == BANDS[i + 1]

\* The keys are written in thousandths of a kHz (1.2 is 1200); the double a
\* literal denotes is KeyDouble of it.
\* The list with a key that has no row in Table 1
MATCH_KEYS_KHZ_Extra ==
    <<1000, 1200, 1400, 1500, 1700, 2000, 2400, 2800, 3400, 4000, 4800, 5700,
      6700, 8000, 9500, 11000, 13000, 16000>>

MATCH_KEYS_KHZ ==
    <<1000, 1200, 1400, 1700, 2000, 2400, 2800, 3400, 4000, 4800, 5700,
      6700, 8000, 9500, 11000, 13000, 16000>>

KeyDouble(k) == FDiv1000(k)

Row(a1, a2, c1, c2) == [a1 |-> a1, a2 |-> a2, c1 |-> c1, c2 |-> c2]

TABLE1_MAP ==
    ( 1000  :> Row(0, null, 2, null) @@
      1200  :> Row(0, null, 2, null) @@
      1400  :> Row(0, null, 2, null) @@
      1700  :> Row(1, 0,    3, null) @@
      2000  :> Row(1, null, 3, null) @@
      2400  :> Row(2, 1,    4, null) @@
      2800  :> Row(2, null, 4, null) @@
      3400  :> Row(3, 2,    5, null) @@
      4000  :> Row(3, null, 5, null) @@
      4800  :> Row(4, 3,    2, 1) @@
      5700  :> Row(4, null, 2, null) @@
      6700  :> Row(5, 4,    3, 2) @@
      8000  :> Row(5, null, 3, null) @@
      9500  :> Row(5, null, 3, null) @@
      11000 :> Row(6, null, 4, null) @@
      13000 :> Row(6, null, 4, null) @@
      16000 :> Row(6, null, 4, null) )

\* The for-loop of nearestMatchKeyKHz from key i on
RECURSIVE ScanKeys(_, _, _, _)
ScanKeys(kHz, i, best, bestD) ==
    IF i > Len(MATCH_KEYS_KHZ) THEN best
    ELSE LET k == MATCH_KEYS_KHZ[i]
             d == FAbsDiff(kHz, KeyDouble(k))
         IN  IF FLess(d, bestD) THEN ScanKeys(kHz, i + 1, k, d)
                                ELSE ScanKeys(kHz, i + 1, best, bestD)

\* A faulty variant: the loop never replaces the first key
firstMatchKeyKHz(freq) == MATCH_KEYS_KHZ[1]

\* A frequency is [kind, hz]: kind "num" with an integer hz, or "nan" / "inf".
\* NaN and Infinity make every d < bestD false, so the first key stays; below
\* 1000 Hz (zero and negatives too) the first key is nearer than any other by
\* at least 0.2 kHz, far more than one rounding.
nearestMatchKeyKHz(freq) ==
    IF freq.kind # "num" \/ freq.hz < 1000 THEN MATCH_KEYS_KHZ[1]
    ELSE LET kHz  == FDiv1000(freq.hz)
             best == MATCH_KEYS_KHZ[1]
         IN  ScanKeys(kHz, 1, best, FAbsDiff(kHz, KeyDouble(best)))

Num(hz) == [kind |-> "num", hz |-> hz]

(***************************************************************************)
(* PRNG (xorshift32) on words <<hi, lo>>                                   *)
(***************************************************************************)
Half == 2^16

RECURSIVE BitXor(_, _, _)
BitXor(x, y, n) ==
    IF n = 0 THEN 0
    ELSE ((x + y) % 2) + 2 * BitXor(x \div 2, y \div 2, n - 1)

\* a ^ b on bytes, tabulated once
XorByte == [i \in 0..255 |-> [j \in 0..255 |-> BitXor(i, j, 8)]]

Xor16(x, y) ==
    XorByte[x \div 256][y \div 256] * 256 + XorByte[x % 256][y % 256]

\* x ^ y followed by >>> 0
Xor32(x, y) == <<Xor16(x[1], y[1]), Xor16(x[2], y[2])>>

\* x << n for 0 < n < 16, the bits above bit 31 lost
Shl32(x, n) ==
    <<(x[1] % 2^(16 - n)) * 2^n + x[2] \div 2^(16 - n), (x[2] % 2^(16 - n)) * 2^n>>

\* x >> 17 of JavaScript: x is taken as a signed 32-bit integer and the sign
\* bit is copied into the 17 vacated positions
Sar17(x) ==
    IF x[1] >= 2^15 THEN <<Half - 1, 2^15 + x[1] \div 2>>
                    ELSE <<0, x[1] \div 2>>

\* x >>> 17: zeros enter from the left
Shr17(x) == <<0, x[1] \div 2>>

\* seed >>> 0, seed given as <<bits above 31, hi, lo>>
ToUint32(seed) == <<seed[2], seed[3]>>

DefaultSeed == <<4660, 22136>>        \* 0x12345678

\* A faulty variant: one generator shared by every run, seeded only the
\* first time
XorShift32Shared(seed) ==
    IF hist.runs = 0
    THEN (IF ToUint32(seed) = <<0, 0>> THEN DefaultSeed ELSE ToUint32(seed))
    ELSE rng

\* new XorShift32(seed): this.state
XorShift32(seed) ==
    IF ToUint32(seed) = <<0, 0>> THEN DefaultSeed ELSE ToUint32(seed)

\* The element of a one-element set: { e(x) : x \in {d} } binds x to the
\* value of d once
Only(S) == CHOOSE v \in S : TRUE

\* nextUint(): the new state, which is also the value returned
\*   x ^= x << 13; x >>>= 0;  x ^= x >> 17; x >>>= 0;  x ^= x << 5; x >>>= 0
nextUint(state) ==
    Only({ Xor32(x2, Shl32(x2, 5)) :
             x2 \in { Xor32(x1, Sar17(x1)) :
                        x1 \in { Xor32(x0, Shl32(x0, 13)) : x0 \in {state} } } })

\* The 32-bit xorshift step on the unsigned word
XorShiftStep(state) ==
    Only({ Xor32(x2, Shl32(x2, 5)) :
             x2 \in { Xor32(x1, Shr17(x1)) :
                        x1 \in { Xor32(x0, Shl32(x0, 13)) : x0 \in {state} } } })

(***************************************************************************)
(* Generation parameters                                                   *)
(***************************************************************************)
sampleRate    == 44100
blockSec      == 4
rampSec       == 1
numChannels   == 1
bitsPerSample == 16
HeaderBytes   == 44
carrierMinHz  == 1000
carrierMaxHz  == 16000
f0Min         == 96
f0Max         == 256

Max(x, y) == IF x >= y THEN x ELSE y

(***************************************************************************)
(* generateBlock: what it draws and how many samples it returns.           *)
(* f0 = 96 + 160 * (u / 2^32) is exact in a double, and so is              *)
(* 2^11 * f0 = 196608 + 5u / 2^16; n * f0 is compared with the carrier     *)
(* limits on that scale, u = hi * 2^16 + lo.                               *)
(***************************************************************************)
F0Scale == 2^11

\* floor and ceiling of 2^11 * n * f0
NF0Floor(n, u) ==
    n * (f0Min * F0Scale + 5 * u[1]) + (5 * n * u[2]) \div Half

NF0Ceil(n, u) ==
    n * (f0Min * F0Scale + 5 * u[1]) + (5 * n * u[2] + Half - 1) \div Half

\* Math.floor(carrierMinHz / f0) in its place
nMinOfFloor(u) ==
    CHOOSE n \in 1..(carrierMinHz \div f0Min + 1) :
        /\ NF0Ceil(n, u) <= carrierMinHz * F0Scale
        /\ NF0Ceil(n + 1, u) > carrierMinHz * F0Scale

\* Math.ceil(carrierMinHz / f0): the least n with n * f0 >= carrierMinHz
nMinOf(u) ==
    CHOOSE n \in 1..(carrierMinHz \div f0Min + 1) :
        /\ NF0Floor(n, u) >= carrierMinHz * F0Scale
        /\ NF0Floor(n - 1, u) < carrierMinHz * F0Scale

\* Math.floor(carrierMaxHz / f0): the greatest n with n * f0 <= carrierMaxHz
nMaxOf(u) ==
    CHOOSE n \in (carrierMaxHz \div f0Max)..(carrierMaxHz \div f0Min) :
        /\ NF0Ceil(n, u) <= carrierMaxHz * F0Scale
        /\ NF0Ceil(n + 1, u) > carrierMaxHz * F0Scale

\* n further calls of nextUint, by halves
RECURSIVE Skip(_, _)
Skip(state, n) ==
    IF n <= 0 THEN state
    ELSE IF n = 1 THEN nextUint(state)
    ELSE Only({ Skip(mid, n - n \div 2) : mid \in {Skip(state, n \div 2)} })

\* One block: N samples, drawn from the generator in the order of the code
\* (pPhase, qPhase, f0, then one phi per harmonic).  The samples are a
\* function of the fields of this record.
generateBlock(state, seconds, bandIdx, mode) ==
    Only({ [ N      |-> sampleRate * seconds,
             band   |-> bandIdx,
             mode   |-> mode,
             pPhase |-> pDraw,
             qPhase |-> qDraw,
             f0     |-> fDraw,
             nMin   |-> nMin,
             nMax   |-> nMax,
             state  |-> Skip(fDraw, nMax - nMin + 1) ] :
           pDraw \in {nextUint(state)},
           qDraw \in {nextUint(nextUint(state))},
           fDraw \in {nextUint(nextUint(nextUint(state)))},
           nMin  \in {nMinOf(nextUint(nextUint(nextUint(state))))},
           nMax  \in {nMaxOf(nextUint(nextUint(nextUint(state))))} })

(***************************************************************************)
(* WAV writer.  A file: size in bytes, what its first 44 bytes hold, the   *)
(* offset its first sample went to, the blocks written to it, and how      *)
(* often its header was written.  A descriptor: state and file position.   *)
(***************************************************************************)
NoHeader  == [kind |-> "none", riff |-> null, byteRate |-> null,
              blockAlign |-> null, dataBytes |-> null]
\* the 44 bytes hold the first 22 samples of a block, not a header
PcmBytes  == [kind |-> "pcm", riff |-> null, byteRate |-> null,
              blockAlign |-> null, dataBytes |-> null]

NewFile == [size |-> 0, hdr |-> NoHeader, pcmOff |-> null, data |-> <<>>,
            samples |-> 0, hdrWrites |-> 0]

NoFd == [state |-> "none", pos |-> 0]

\* writeWavHeader: 44 bytes written at position 0.  A write at a given
\* position leaves the descriptor's file position where it was.
writeWavHeader(f, dataBytes) ==
    [f EXCEPT
        !.size = Max(f.size, HeaderBytes),
        !.hdr  = [kind       |-> "header",
                  riff       |-> 36 + dataBytes,
                  byteRate   |-> sampleRate * numChannels * (bitsPerSample \div 8),
                  blockAlign |-> numChannels * (bitsPerSample \div 8),
                  dataBytes  |-> dataBytes],
        !.hdrWrites = f.hdrWrites + 1]

\* finalizeWav: the data size is taken from the size of the file
finalizeWav(f) == writeWavHeader(f, f.size - HeaderBytes)

\* Where fs.writeSync(fd, buf), called without a position, puts the buffer:
\* at the descriptor's file position
WriteOffset(d) == d.pos

\* writePcm16: 2 bytes a sample, written at WriteOffset and moving the
\* file position
writePcm16(f, d, block) ==
    LET at  == WriteOffset(d)
        len == 2 * block.N
    IN  [f EXCEPT
            !.size    = Max(f.size, at + len),
            !.hdr     = IF len > 0 /\ at < HeaderBytes THEN PcmBytes ELSE f.hdr,
            !.pcmOff  = IF f.pcmOff = null /\ len > 0 THEN at ELSE f.pcmOff,
            !.data    = Append(f.data, block),
            !.samples = f.samples + block.N]

AfterWrite(d, block) == [d EXCEPT !.pos = WriteOffset(d) + 2 * block.N]

(***************************************************************************)
(* generateFile: the block plan.  minutes is carried in quarters of a      *)
(* minute (quarters = 4 * minutes), so that totalSec is an integer.        *)
(***************************************************************************)
totalSec(quarters)    == 15 * quarters
\* A faulty variant: the number of blocks rounded up
blocksOfCeil(quarters) == (totalSec(quarters) + blockSec - 1) \div blockSec
\* Math.floor(totalSec / blockSec)
blocksOf(quarters)    == totalSec(quarters) \div blockSec
remainderOf(quarters) == totalSec(quarters) - blocksOf(quarters) * blockSec
\* remainder > 1e-6
HasRemainder(quarters) == remainderOf(quarters) >= 1
totalBlocksOf(quarters) ==
    blocksOf(quarters) + (IF HasRemainder(quarters) THEN 1 ELSE 0)



(***************************************************************************)
(* The request, from the POST body or a direct caller, to the result       *)
(***************************************************************************)
NaNFreq     == [kind |-> "nan", hz |-> 0]      \* NaN (over HTTP: a non-numeric string)
InfFreq     == [kind |-> "inf", hz |-> 0]      \* Infinity (over HTTP: 1e999)
MissingFreq == [kind |-> "missing", hz |-> 0]  \* no tinnitusHz in the body

NoCall   == [kind |-> "none"]
NoResult == [kind |-> "none"]
Roles    == {"active", "sham"}

\* path.join(outDir, `${role}_${mode}_${Math.round(tinnitusHz)}Hz_${minutes}min.wav`)
PathOf(r, c) == <<r, c.mode, c.tinnitusHz, c.quarters>>

Put(fs, path, f) ==
    [q \in (DOMAIN fs) \cup {path} |-> IF q = path THEN f ELSE fs[q]]

CurPath == PathOf(role, call)
CurBand == IF role = "active" THEN activeBandIdx ELSE shamBandIdx

\* server.js: !tinnitusHz || tinnitusHz <= 0
HandlerRejects(r) ==
    \/ r.tinnitusHz.kind = "missing"
    \/ r.tinnitusHz.kind = "num" /\ r.tinnitusHz.hz <= 0

\* The arguments the handler passes on: generateSham is not among them, so
\* generateSoundFiles takes its default
HandlerArgs(r) ==
    [kind         |-> "call",
     tinnitusHz   |-> r.tinnitusHz,
     mode         |-> r.mode,
     quarters     |-> r.quarters,
     useAltActive |-> r.useAltActive,
     useAltSham   |-> r.useAltSham,
     generateSham |-> FALSE,
     onProgress   |-> r.useProgress]

DirectArgs(r) ==
    [kind         |-> "call",
     tinnitusHz   |-> r.tinnitusHz,
     mode         |-> r.mode,
     quarters     |-> r.quarters,
     useAltActive |-> r.useAltActive,
     useAltSham   |-> r.useAltSham,
     generateSham |-> r.generateSham,
     onProgress   |-> r.useProgress]

NoHttp == [status |-> 0, events |-> <<>>, ended |-> FALSE]

\* /api/generate: the body fails the check; 400
RejectRequest ==
    /\ pc = "recv" /\ req.via = "http"
    /\ HandlerRejects(req)
    /\ http' = [status |-> 400, events |-> <<>>, ended |-> TRUE]
    /\ pc' = "rejected"
    /\ UNCHANGED <<req, now, call, matchKey, activeBandIdx, shamBandIdx, role,
                   rng, b, fd, files, client, result, hist>>
    /\ UNCHANGED <<other, dsp, ui>>

\* A faulty variant: the stream is opened and no start event written
AcceptRequestSilent ==
    /\ pc = "recv" /\ req.via = "http"
    /\ ~HandlerRejects(req)
    /\ call' = HandlerArgs(req)
    /\ http' = IF req.useProgress
               THEN [status |-> 200, events |-> <<>>, ended |-> FALSE]
               ELSE http
    /\ pc' = "enter"
    /\ UNCHANGED <<req, now, matchKey, activeBandIdx, shamBandIdx, role,
                   rng, b, fd, files, client, result, hist, other, dsp, ui>>

\* /api/generate: the body passes; with useProgress the stream is opened
\* and the start event written
AcceptRequest ==
    /\ pc = "recv" /\ req.via = "http"
    /\ ~HandlerRejects(req)
    /\ call' = HandlerArgs(req)
    /\ http' = IF req.useProgress
               THEN [status |-> 200, events |-> <<[type |-> "start"]>>, ended |-> FALSE]
               ELSE http
    /\ pc' = "enter"
    /\ UNCHANGED <<req, now, matchKey, activeBandIdx, shamBandIdx, role,
                   rng, b, fd, files, client, result, hist>>
    /\ UNCHANGED <<other, dsp, ui>>

\* generateSoundFiles called by a script of the repository
DirectCall ==
    /\ pc = "recv" /\ req.via = "direct"
    /\ call' = DirectArgs(req)
    /\ pc' = "enter"
    /\ UNCHANGED <<req, now, matchKey, activeBandIdx, shamBandIdx, role,
                   rng, b, fd, files, http, client, result, hist>>
    /\ UNCHANGED <<other, dsp, ui>>

\* A faulty variant: the flag alone decides, whether or not the row has an
\* alternate
ActiveIdxByFlag(mapEntry, useAltActive) ==
    IF useAltActive THEN mapEntry.a2 ELSE mapEntry.a1

\* The band indices of generateSoundFiles
ActiveIdx(mapEntry, useAltActive) ==
    IF useAltActive /\ mapEntry.a2 # null THEN mapEntry.a2 ELSE mapEntry.a1

\* A faulty variant: the sham band read from the active columns
ShamIdxFromActive(mapEntry, useAltSham) ==
    IF useAltSham /\ mapEntry.a2 # null THEN mapEntry.a2 ELSE mapEntry.a1

ShamIdx(mapEntry, useAltSham) ==
    IF useAltSham /\ mapEntry.c2 # null THEN mapEntry.c2 ELSE mapEntry.c1

\* generateSoundFiles up to the first generateFile: key, bands, paths
ResolveBands ==
    /\ pc = "enter"
    /\ LET key == nearestMatchKeyKHz(call.tinnitusHz)
       IN  /\ matchKey' = key
           /\ IF key \in DOMAIN TABLE1_MAP
              THEN /\ activeBandIdx' = ActiveIdx(TABLE1_MAP[key], call.useAltActive)
                   /\ shamBandIdx' = ShamIdx(TABLE1_MAP[key], call.useAltSham)
                   /\ pc' = "open"
              ELSE /\ UNCHANGED <<activeBandIdx, shamBandIdx>>
                   /\ pc' = "throw"
    /\ role' = "active"
    /\ UNCHANGED <<req, now, call, rng, b, fd, files, http, client, result, hist>>
    /\ UNCHANGED <<other, dsp, ui>>

\* generateFile: mkdirSync, openSync(filepath, "w")
OpenFile ==
    /\ pc = "open"
    /\ files' = Put(files, CurPath, NewFile)
    /\ fd' = [fd EXCEPT ![role] = [state |-> "open", pos |-> 0]]
    /\ hist' = [hist EXCEPT !.opens = hist.opens + 1]
    /\ pc' = "header"
    /\ UNCHANGED <<req, now, call, matchKey, activeBandIdx, shamBandIdx, role,
                   rng, b, http, client, result>>
    /\ UNCHANGED <<other, dsp, ui>>

\* openSync (or mkdirSync) throws
OpenFails ==
    /\ pc = "open"
    /\ pc' = "throw"
    /\ UNCHANGED <<req, now, call, matchKey, activeBandIdx, shamBandIdx, role,
                   rng, b, fd, files, http, client, result, hist>>
    /\ UNCHANGED <<other, dsp, ui>>

NextLoopPc(b1, q) ==
    IF b1 < blocksOf(q) THEN "loop"
    ELSE IF HasRemainder(q) THEN "rem" ELSE "finalize"

\* generateFile: the placeholder header, the block plan and new XorShift32(seed)
WritePlaceholder ==
    /\ pc = "header"
    /\ files' = [files EXCEPT ![CurPath] = writeWavHeader(@, 0)]
    /\ rng' = XorShift32(now)
    /\ b' = 0
    /\ pc' = NextLoopPc(0, call.quarters)
    /\ UNCHANGED <<req, now, call, matchKey, activeBandIdx, shamBandIdx, role,
                   fd, http, client, result, hist>>
    /\ UNCHANGED <<other, dsp, ui>>

HeaderWriteFails ==
    /\ pc = "header"
    /\ pc' = "throw"
    /\ UNCHANGED <<req, now, call, matchKey, activeBandIdx, shamBandIdx, role,
                   rng, b, fd, files, http, client, result, hist>>
    /\ UNCHANGED <<other, dsp, ui>>

\* Fractions are pairs <<numerator, denominator>>.
\* generateSoundFiles: progressScale
progressScale == IF call.generateSham THEN <<1, 2>> ELSE <<1, 1>>

\* generateFile: ((b + 1) / totalBlocks) * progressScale after block n of
\* the loop, progressScale after the remainder block
FileProgress(n) ==
    IF n <= blocksOf(call.quarters)
    THEN <<n * progressScale[1], totalBlocksOf(call.quarters) * progressScale[2]>>
    ELSE progressScale

\* A faulty variant: the sham file's fraction passed on as the active file's is
WrappedUnshifted(p) == p

\* The wrappers of generateSoundFiles: the active file's fraction as it
\* is, the sham file's as 0.5 + 0.5 * fraction
Wrapped(p) ==
    IF role = "active" THEN p ELSE <<p[2] + p[1], 2 * p[2]>>

\* What the sink receives after block n of the current file
ProgressEvent(n) ==
    [type |-> "progress", fileType |-> role, block |-> n,
     totalBlocks |-> totalBlocksOf(call.quarters),
     progress |-> Wrapped(FileProgress(n))]

\* The history after block n: the events handed to onProgress
Delivered(n) ==
    [hist EXCEPT !.synth = hist.synth + 1,
                 !.events = IF call.onProgress THEN Append(@, ProgressEvent(n))
                                               ELSE @]

\* res.write of a progress event; nothing reaches a peer that has gone, and
\* the write does not throw
Emit(ev) ==
    IF call.onProgress /\ req.via = "http"
    THEN http' = [http EXCEPT !.events = Append(@, ev)]
    ELSE UNCHANGED http

\* One pass of the for loop: generateBlock, writePcm16, onProgress and the
\* setImmediate the loop waits for when there is a sink
WriteBlock ==
    /\ pc = "loop"
    /\ LET blk == generateBlock(rng, blockSec, CurBand, call.mode)
       IN  /\ rng' = blk.state
           /\ files' = [files EXCEPT ![CurPath] = writePcm16(@, fd[role], blk)]
           /\ fd' = [fd EXCEPT ![role] = AfterWrite(@, blk)]
    /\ b' = b + 1
    /\ hist' = Delivered(b + 1)
    /\ Emit(ProgressEvent(b + 1))
    /\ pc' = IF call.onProgress THEN "yield" ELSE NextLoopPc(b + 1, call.quarters)
    /\ UNCHANGED <<req, now, call, matchKey, activeBandIdx, shamBandIdx, role,
                   client, result>>
    /\ UNCHANGED <<other, dsp, ui>>

\* The remainder block
WriteRemainder ==
    /\ pc = "rem"
    /\ LET blk == generateBlock(rng, remainderOf(call.quarters), CurBand, call.mode)
       IN  /\ rng' = blk.state
           /\ files' = [files EXCEPT ![CurPath] = writePcm16(@, fd[role], blk)]
           /\ fd' = [fd EXCEPT ![role] = AfterWrite(@, blk)]
    /\ hist' = Delivered(blocksOf(call.quarters) + 1)
    /\ Emit(ProgressEvent(blocksOf(call.quarters) + 1))
    /\ pc' = IF call.onProgress THEN "yieldRem" ELSE "finalize"
    /\ UNCHANGED <<req, now, call, matchKey, activeBandIdx, shamBandIdx, role,
                   b, client, result>>
    /\ UNCHANGED <<other, dsp, ui>>

\* A block is generated and the write of it throws
BlockWriteFails ==
    /\ pc \in {"loop", "rem"}
    /\ LET secs == IF pc = "loop" THEN blockSec ELSE remainderOf(call.quarters)
           blk  == generateBlock(rng, secs, CurBand, call.mode)
       IN  rng' = blk.state
    /\ hist' = [hist EXCEPT !.synth = hist.synth + 1]
    /\ pc' = "throw"
    /\ UNCHANGED <<req, now, call, matchKey, activeBandIdx, shamBandIdx, role,
                   b, fd, files, http, client, result>>
    /\ UNCHANGED <<other, dsp, ui>>

\* The setImmediate callback runs: the loop goes on
Resume ==
    /\ pc \in {"yield", "yieldRem"}
    /\ pc' = IF pc = "yieldRem" THEN "finalize" ELSE NextLoopPc(b, call.quarters)
    /\ UNCHANGED <<req, now, call, matchKey, activeBandIdx, shamBandIdx, role,
                   rng, b, fd, files, http, client, result, hist>>
    /\ UNCHANGED <<other, dsp, ui>>

\* The peer of the progress stream goes away while the loop waits
Disconnect ==
    /\ pc \in {"yield", "yieldRem"}
    /\ req.via = "http" /\ client = "connected"
    /\ client' = "gone"
    /\ hist' = [hist EXCEPT !.leftAt = hist.synth]
    /\ UNCHANGED <<req, now, pc, call, matchKey, activeBandIdx, shamBandIdx, role,
                   rng, b, fd, files, http, result>>
    /\ UNCHANGED <<other, dsp, ui>>

\* finalizeWav
Finalize ==
    /\ pc = "finalize"
    /\ files' = [files EXCEPT ![CurPath] = finalizeWav(@)]
    /\ pc' = "close"
    /\ UNCHANGED <<req, now, call, matchKey, activeBandIdx, shamBandIdx, role,
                   rng, b, fd, http, client, result, hist>>
    /\ UNCHANGED <<other, dsp, ui>>

FinalizeFails ==
    /\ pc = "finalize"
    /\ pc' = "throw"
    /\ UNCHANGED <<req, now, call, matchKey, activeBandIdx, shamBandIdx, role,
                   rng, b, fd, files, http, client, result, hist>>
    /\ UNCHANGED <<other, dsp, ui>>

\* closeSync; generateSoundFiles goes on to the sham file or to its return
CloseFile ==
    /\ pc = "close"
    /\ fd' = [fd EXCEPT ![role] = [@ EXCEPT !.state = "closed"]]
    /\ IF role = "active" /\ call.generateSham
       THEN role' = "sham" /\ pc' = "open"
       ELSE role' = role /\ pc' = "return"
    /\ UNCHANGED <<req, now, call, matchKey, activeBandIdx, shamBandIdx,
                   rng, b, files, http, client, result, hist>>
    /\ UNCHANGED <<other, dsp, ui>>

Descriptor ==
    [kind       |-> "result",
     active     |-> PathOf("active", call),
     sham       |-> IF call.generateSham THEN PathOf("sham", call) ELSE <<>>,
     tinnitusHz |-> call.tinnitusHz,
     mode       |-> call.mode,
     quarters   |-> call.quarters,
     activeBand |-> activeBandIdx,
     shamBand   |-> IF call.generateSham THEN shamBandIdx ELSE null]

\* generateSoundFiles returns; the handler sends the result
Return ==
    /\ pc = "return"
    /\ result' = Descriptor
    /\ http' = IF req.via # "http" THEN http
               ELSE IF req.useProgress
                    THEN [http EXCEPT !.events = Append(@, [type |-> "complete",
                                                            result |-> Descriptor]),
                                      !.ended = TRUE]
                    ELSE [status |-> 200, events |-> <<>>, ended |-> TRUE]
    /\ pc' = "done"
    /\ UNCHANGED <<req, now, call, matchKey, activeBandIdx, shamBandIdx, role,
                   rng, b, fd, files, client, hist>>
    /\ UNCHANGED <<other, dsp, ui>>

\* A faulty variant: the failure is caught inside generateSoundFiles and
\* the descriptor returned all the same
ThrowWithResult ==
    /\ pc = "throw"
    /\ result' = Descriptor
    /\ http' = IF req.via # "http" THEN http
               ELSE IF req.useProgress
                    THEN [http EXCEPT !.events = Append(@, [type |-> "complete"]),
                                      !.ended = TRUE]
                    ELSE [status |-> 200, events |-> <<>>, ended |-> TRUE]
    /\ pc' = "failed"
    /\ UNCHANGED <<req, now, call, matchKey, activeBandIdx, shamBandIdx, role,
                   rng, b, fd, files, client, hist, other, dsp, ui>>

\* The exception leaves generateFile and generateSoundFiles: the promise is
\* rejected; the handler sends the error
Throw ==
    /\ pc = "throw"
    /\ http' = IF req.via # "http" THEN http
               ELSE IF req.useProgress
                    THEN [http EXCEPT !.events = Append(@, [type |-> "error"]),
                                      !.ended = TRUE]
                    ELSE [status |-> 500, events |-> <<>>, ended |-> TRUE]
    /\ pc' = "failed"
    /\ UNCHANGED <<req, now, call, matchKey, activeBandIdx, shamBandIdx, role,
                   rng, b, fd, files, client, result, hist>>
    /\ UNCHANGED <<other, dsp, ui>>



(***************************************************************************)
(* A second request in the same process.  Node runs one piece of code at   *)
(* a time: a request runs from where it was resumed to its next await, so  *)
(* the second request is taken in whole pieces, each begun while the first *)
(* request is not running.                                                 *)
(***************************************************************************)
NoOther == [pc |-> "off"]
NoDsp   == [op |-> "none"]
NoUi    == [next |-> "off"]

\* The first request is not running: not begun, waiting in setImmediate, or over
AtYield == pc \in {"recv", "rejected", "yield", "yieldRem", "done", "failed"}

OtherPath == PathOf("active", other.call)

\* generateFile of the second request from where it stands to its next
\* await: one block written, or the header rewritten and the file closed.
\* The result is <<its new state, the new file>>.
OtherPiece(o, f) ==
    IF o.pc \in {"loop", "rem"}
    THEN LET secs == IF o.pc = "loop" THEN blockSec
                                     ELSE remainderOf(o.call.quarters)
             blk  == generateBlock(o.rng, secs, o.band, o.call.mode)
             d    == [state |-> "open", pos |-> o.pos]
         IN  << [o EXCEPT !.rng = blk.state,
                          !.pos = AfterWrite(d, blk).pos,
                          !.b   = IF o.pc = "loop" THEN o.b + 1 ELSE o.b,
                          !.pc  = IF o.pc = "loop"
                                  THEN NextLoopPc(o.b + 1, o.call.quarters)
                                  ELSE "finalize"],
                writePcm16(f, d, blk) >>
    ELSE << [o EXCEPT !.pc = "done"], finalizeWav(f) >>

\* The second request arrives: handler, generateSoundFiles, openSync (which
\* truncates what is at the path), placeholder header, first block
OtherStart ==
    /\ other.pc = "idle"
    /\ AtYield
    /\ LET c    == other.call
           key  == nearestMatchKeyKHz(c.tinnitusHz)
           o1   == [other EXCEPT
                      !.band = ActiveIdx(TABLE1_MAP[key], c.useAltActive),
                      !.rng  = XorShift32(other.seed),
                      !.pc   = NextLoopPc(0, c.quarters)]
           next == OtherPiece(o1, writeWavHeader(NewFile, 0))
       IN  /\ other' = next[1]
           /\ files' = Put(files, OtherPath, next[2])
    /\ UNCHANGED <<req, now, pc, call, matchKey, activeBandIdx, shamBandIdx, role,
                   rng, b, fd, http, client, result, hist, dsp, ui>>

\* The second request is resumed from its setImmediate
OtherResume ==
    /\ other.pc \in {"loop", "rem", "finalize"}
    /\ AtYield
    /\ LET next == OtherPiece(other, files[OtherPath])
       IN  /\ other' = next[1]
           /\ files' = [files EXCEPT ![OtherPath] = next[2]]
    /\ UNCHANGED <<req, now, pc, call, matchKey, activeBandIdx, shamBandIdx, role,
                   rng, b, fd, http, client, result, hist, dsp, ui>>

(***************************************************************************)
(* Specifications                                                          *)
(***************************************************************************)
MinMinutes == 5        \* the duration slider of the page
MaxMinutes == 120

MaxQuarters == 2       \* short durations 0 .. MaxQuarters quarters of a minute
GridPoints  == 300     \* frequencies 1000, 1050, .. of the band specification
MaxDraws    == 6       \* nextUint calls followed by the generator specification
MaxRuns     == 2       \* runs of one request in the repeated-run specification

NoHist == [synth |-> 0, opens |-> 0, leftAt |-> null, draws |-> 0,
           before |-> <<0, 0>>, runs |-> 0, prevSeed |-> <<0, 0, 0>>,
           prevFiles |-> <<>>, events |-> <<>>]

Request(via, f, m, q, aa, as, sham, prog) ==
    [via |-> via, tinnitusHz |-> f, mode |-> m, quarters |-> q,
     useAltActive |-> aa, useAltSham |-> as, generateSham |-> sham,
     useProgress |-> prog]

InitMain(requests, clock) ==
    /\ req \in requests
    /\ now \in clock
    /\ pc = "recv"
    /\ call = NoCall
    /\ matchKey = null
    /\ activeBandIdx = null
    /\ shamBandIdx = null
    /\ role = "active"
    /\ rng = <<0, 0>>
    /\ b = 0
    /\ fd = [r \in Roles |-> NoFd]
    /\ files = <<>>
    /\ http = NoHttp
    /\ client = "connected"
    /\ result = NoResult
    /\ hist = NoHist

InitWith(requests, clock) ==
    /\ InitMain(requests, clock)
    /\ other = NoOther
    /\ dsp = NoDsp
    /\ ui = NoUi

\* Date.now(): the bits above bit 31, then the two halves of the low word
Clock == {<<397, 4660, 1>>}

\* ---- the request, with faults and a peer that may leave ----
Requests ==
    { r \in { Request(via, f, mf[1], q, mf[2], mf[2], sham, prog) :
                via \in {"http", "direct"},
                f \in {Num(4800), Num(0), Num(0 - 100), NaNFreq, InfFreq, MissingFreq},
                mf \in {<<"phase", FALSE>>, <<"amplitude", TRUE>>},
                q \in (0..MaxQuarters) \cup {4 * MinMinutes},
                sham \in BOOLEAN, prog \in BOOLEAN } :
        /\ r.tinnitusHz = MissingFreq => r.via = "http"
        /\ r.quarters > MaxQuarters => r.tinnitusHz = Num(4800) /\ r.mode = "phase" }

Init == InitWith(Requests, Clock)

Next ==
    \/ RejectRequest \/ AcceptRequest \/ DirectCall \/ ResolveBands
    \/ OpenFile \/ OpenFails \/ WritePlaceholder \/ HeaderWriteFails
    \/ WriteBlock \/ WriteRemainder \/ BlockWriteFails
    \/ Resume \/ Disconnect
    \/ Finalize \/ FinalizeFails \/ CloseFile \/ Return \/ Throw

Spec == Init /\ [][Next]_vars

\* ---- the band table over a grid of frequencies ----
FreqGrid == {1000 + 50 * i : i \in 0..GridPoints}

\* and what a direct caller may pass besides: zero, a negative number, a
\* frequency above the last key, NaN, Infinity
OffGrid == {Num(0), Num(0 - 100), Num(20000), NaNFreq, InfFreq}

BandRequests ==
    { Request("direct", f, "phase", 1, aa, as, TRUE, FALSE) :
        f \in {Num(g) : g \in FreqGrid} \cup OffGrid,
        aa \in BOOLEAN, as \in BOOLEAN }

InitBand == InitWith(BandRequests, Clock)
NextBand == DirectCall \/ ResolveBands
SpecBand == InitBand /\ [][NextBand]_vars

\* ---- the generator alone ----
ClockRng ==
    { <<397, h, l>> : h \in {0, 1, 4660, 32768, 64512, 65535},
                      l \in {0, 1, 8191, 22136, 65535} }

\* new XorShift32(seed)
NewRng ==
    /\ pc = "recv"
    /\ rng' = XorShift32(now)
    /\ pc' = "rng"
    /\ UNCHANGED <<req, now, call, matchKey, activeBandIdx, shamBandIdx, role,
                   b, fd, files, http, client, result, hist>>
    /\ UNCHANGED <<other, dsp, ui>>

\* rng.nextUint()
Draw ==
    /\ pc = "rng"
    /\ hist.draws < MaxDraws
    /\ rng' = nextUint(rng)
    /\ hist' = [hist EXCEPT !.draws = hist.draws + 1, !.before = rng]
    /\ UNCHANGED <<req, now, pc, call, matchKey, activeBandIdx, shamBandIdx, role,
                   b, fd, files, http, client, result>>
    /\ UNCHANGED <<other, dsp, ui>>

InitRng == InitWith({Request("direct", Num(4800), "phase", 1, FALSE, FALSE, FALSE, FALSE)},
                    ClockRng)
NextRng == NewRng \/ Draw
SpecRng == InitRng /\ [][NextRng]_vars

\* ---- durations of the slider, generateSoundFiles called without faults ----
DurQuarters ==
    { 4 * m : m \in {MinMinutes, MinMinutes + 1, 30, 60, MaxMinutes - 1, MaxMinutes} }
        \cup {4 * MinMinutes + 1, 4 * MinMinutes + 2}

DurRequests ==
    { Request("direct", Num(4800), "phase", q, FALSE, FALSE, FALSE, FALSE) :
        q \in DurQuarters }

InitDur == InitWith(DurRequests, Clock)
NextDur ==
    \/ DirectCall \/ ResolveBands \/ OpenFile \/ WritePlaceholder
    \/ WriteBlock \/ WriteRemainder \/ Finalize \/ CloseFile \/ Return
SpecDur == InitDur /\ [][NextDur]_vars

\* ---- the same request run again; the clock may read what it read before ----
ClockDet == {<<397, 4660, 1>>, <<397, 4660, 2>>}

DetRequests ==
    { Request("direct", Num(4800), mf[1], q, mf[2], mf[2], sham, prog) :
        mf \in {<<"phase", FALSE>>, <<"amplitude", TRUE>>},
        q \in 1..MaxQuarters, sham \in BOOLEAN, prog \in BOOLEAN }

\* The request is made again: the same fields, any seed, with or without a
\* progress callback.  The files of the earlier run are still on disk.
SecondRun ==
    /\ pc = "done"
    /\ hist.runs + 1 < MaxRuns
    /\ \E t \in ClockDet, p \in BOOLEAN :
          /\ now' = t
          /\ req' = [req EXCEPT !.useProgress = p]
    /\ hist' = [NoHist EXCEPT !.runs = hist.runs + 1,
                              !.prevSeed = now,
                              !.prevFiles = files]
    /\ pc' = "recv"
    /\ call' = NoCall
    /\ matchKey' = null
    /\ activeBandIdx' = null
    /\ shamBandIdx' = null
    /\ role' = "active"
    /\ b' = 0
    /\ fd' = [r \in Roles |-> NoFd]
    /\ http' = NoHttp
    /\ result' = NoResult
    /\ UNCHANGED <<rng, files, client>>
    /\ UNCHANGED <<other, dsp, ui>>

InitDet == InitWith(DetRequests, ClockDet)
NextDet ==
    \/ DirectCall \/ ResolveBands \/ OpenFile \/ WritePlaceholder
    \/ WriteBlock \/ WriteRemainder \/ Resume
    \/ Finalize \/ CloseFile \/ Return \/ SecondRun
SpecDet == InitDet /\ [][NextDet]_vars

\* ---- two requests with progress streams, interleaved at their awaits ----
ConcRequests ==
    { Request("http", Num(4800), "phase", 1, FALSE, FALSE, FALSE, TRUE) }

\* The second request: the frequency of the first or another, its duration
OtherRequests ==
    { [pc |-> "idle", call |-> HandlerArgs([r EXCEPT !.tinnitusHz = Num(f)]),
       seed |-> t, band |-> null, rng |-> <<0, 0>>, b |-> 0, pos |-> 0] :
        r \in ConcRequests, f \in {4800, 6700}, t \in ClockDet }

InitConc ==
    /\ InitMain(ConcRequests, Clock)
    /\ other \in {o \in OtherRequests : o.call.quarters = req.quarters}
    /\ dsp = NoDsp
    /\ ui = NoUi
NextConc ==
    \/ AcceptRequest \/ ResolveBands \/ OpenFile \/ WritePlaceholder
    \/ WriteBlock \/ WriteRemainder \/ Resume
    \/ Finalize \/ CloseFile \/ Return
    \/ OtherStart \/ OtherResume
SpecConc == InitConc /\ [][NextConc]_vars

(***************************************************************************)
(* Properties                                                              *)
(***************************************************************************)
Dist(x, y) == IF x >= y THEN x - y ELSE y - x

KeyIndex(k) == CHOOSE i \in 1..Len(MATCH_KEYS_KHZ) : MATCH_KEYS_KHZ[i] = k

Completed == pc \in {"close", "return", "done"}

\* C1: for every frequency f the key returned by nearestMatchKeyKHz is at
\* minimal distance |f/1000 - key| among the 17 keys, and of the keys at that
\* distance it is the first in the list.  (Distances are compared in Hz:
\* |f - 1000 key|.)
C1_NearestKeyFirstOnTies ==
    (pc = "open" /\ call.tinnitusHz.kind = "num") =>
        LET f == call.tinnitusHz.hz
        IN  /\ matchKey \in {MATCH_KEYS_KHZ[i] : i \in 1..Len(MATCH_KEYS_KHZ)}
            /\ \A i \in 1..Len(MATCH_KEYS_KHZ) :
                  /\ Dist(f, MATCH_KEYS_KHZ[i]) >= Dist(f, matchKey)
                  /\ Dist(f, MATCH_KEYS_KHZ[i]) = Dist(f, matchKey)
                        => i >= KeyIndex(matchKey)

\* C2: for every row, role and flag value generateSoundFiles selects the
\* row's alternate band index if and only if the flag of that role is set
\* and the row has an alternate for that role; otherwise the preferred index.
C2_AlternateIffFlagAndPresent ==
    pc = "open" =>
        LET row == TABLE1_MAP[matchKey]
        IN  /\ (call.useAltActive /\ row.a2 # null) => activeBandIdx = row.a2
            /\ ~(call.useAltActive /\ row.a2 # null) => activeBandIdx = row.a1
            /\ (call.useAltSham /\ row.c2 # null) => shamBandIdx = row.c2
            /\ ~(call.useAltSham /\ row.c2 # null) => shamBandIdx = row.c1
            /\ activeBandIdx \in 0..(Len(BANDS) - 1)
            /\ shamBandIdx \in 0..(Len(BANDS) - 1)

\* 4800 Hz with useAltActive: band 2.8-5.7k is selected, not the preferred 4-8k
C2_Witness ==
    /\ pc = "open"
    /\ call.tinnitusHz = Num(4800) /\ call.useAltActive
    /\ BandAt(activeBandIdx).name = "2.8-5.7k"
    /\ BandAt(TABLE1_MAP[matchKey].a1).name = "4-8k"

\* A request the contract calls invalid
InvalidRequest(r) ==
    \/ r.tinnitusHz.kind # "num"
    \/ r.tinnitusHz.hz <= 0
    \/ r.quarters < 4 * MinMinutes
    \/ r.quarters > 4 * MaxMinutes

\* C3: a request whose frequency is non-finite or not greater than 0, or
\* whose duration is outside 5..120 minutes, is rejected before any output
\* file is opened and before any block is synthesized.
C3_InvalidRejectedBeforeOpen ==
    InvalidRequest(req) => hist.opens = 0 /\ hist.synth = 0

C5_NextUintIsXorShift ==
    /\ (pc = "rng" /\ hist.draws = 0) =>
          rng = (IF <<now[2], now[3]>> = <<0, 0>> THEN <<4660, 22136>>
                                                 ELSE <<now[2], now[3]>>)
    /\ hist.draws > 0 => rng = XorShiftStep(hist.before)

\* C6: for every duration M of the slider generateFile writes M*60*44100
\* samples in total: floor(totalSeconds/4) blocks of 176400 samples, then one
\* shorter block if totalSeconds is not a multiple of 4 and none otherwise.
\* (call.quarters = 4M; the durations between whole minutes are held to the
\* same count, 15*44100 samples a quarter.)
C6_SamplesAndBlocks ==
    Completed =>
        LET f    == files[CurPath]
            secs == 15 * call.quarters
            full == secs \div 4
            n    == Len(f.data)
        IN  /\ f.samples = secs * 44100
            /\ call.quarters % 4 = 0 => f.samples = (call.quarters \div 4) * 60 * 44100
            /\ n = full + (IF secs % 4 = 0 THEN 0 ELSE 1)
            /\ \A i \in 1..full : f.data[i].N = 176400
            /\ secs % 4 # 0 => /\ f.data[n].N = (secs % 4) * 44100
                               /\ f.data[n].N < 176400

\* Five minutes: 75 blocks, 13,230,000 samples, no remainder block
C6_Witness ==
    /\ pc = "done"
    /\ call.quarters = 4 * MinMinutes
    /\ Len(files[CurPath].data) = 75
    /\ files[CurPath].samples = 13230000

\* C7: after generateFile completes the header holds byteRate 88200,
\* blockAlign 2, data size = file size - 44 = 2 * (samples written), and
\* RIFF size = 36 + data size.
C7_HeaderAfterFinalize ==
    Completed =>
        LET f == files[CurPath]
        IN  /\ f.hdr.kind = "header"
            /\ f.hdr.byteRate = 88200
            /\ f.hdr.blockAlign = 2
            /\ f.hdr.dataBytes = f.size - 44
            /\ f.hdr.dataBytes = 2 * f.samples
            /\ f.hdr.riff = 36 + f.hdr.dataBytes

\* C8: in every run of generateFile: open, the placeholder header (data size
\* 0) at offset 0, the blocks appended after it in order, the header written
\* once more after the last block, close; no sample before the placeholder
\* or after the rewrite, and while the placeholder is in place its data size
\* is 0.
C8_EncoderOrder ==
    \A r \in Roles :
        fd[r].state # "none" =>
            LET f == files[PathOf(r, call)]
            IN  /\ f.hdrWrites \in 0..2
                /\ f.hdrWrites = 0 => f.samples = 0
                /\ f.pcmOff \in {null, HeaderBytes}
                /\ (f.hdrWrites = 1 /\ f.hdr.kind = "header") => f.hdr.dataBytes = 0
                /\ f.hdrWrites = 2 =>
                      f.samples = totalSec(call.quarters) * sampleRate
                /\ fd[r].state = "closed" => f.hdrWrites = 2

\* C9: if the open or a write fails, the failure reaches the caller, the
\* descriptor is released, and no file that was never finalized stays in the
\* generated directory.
C9_FailureReleasesAndDiscards ==
    pc = "failed" =>
        /\ req.via = "http" => http.ended
        /\ \A r \in Roles : fd[r].state # "open"
        /\ \A p \in DOMAIN files : files[p].hdrWrites = 2

\* C10: once the caller has left between two blocks, no further block is
\* generated for the request and its file is not finalized.
C10_AbandonStopsGeneration ==
    client = "gone" =>
        /\ hist.synth = hist.leftAt
        /\ files[CurPath].hdrWrites < 2

\* C11: of two requests interleaved at their awaits, neither truncates,
\* writes into or finalizes the output file of the other, also when both
\* carry the same rounded frequency, mode and duration: a piece of one
\* request leaves the file of the other as it was.
C11_RequestsIsolated ==
    [][ /\ (other' # other /\ fd["active"].state # "none")
            => files'[PathOf("active", call)] = files[PathOf("active", call)]
        /\ (other' = other /\ other.pc \notin {"off", "idle"})
            => files'[OtherPath] = files[OtherPath] ]_vars

\* C12: generateFile yields to the event loop exactly once after each block
\* and at no other point, whether or not a progress sink was supplied: a
\* step that writes a block ends waiting in setImmediate, and only such a
\* step does.
C12_YieldAfterEveryBlock ==
    [][ /\ (hist'.synth = hist.synth + 1 /\ pc' # "throw")
            => pc' \in {"yield", "yieldRem"}
        /\ (pc' \in {"yield", "yieldRem"} /\ pc' # pc)
            => hist'.synth = hist.synth + 1 ]_vars

\* The events of one file, in the order delivered
EventsOf(r) == SelectSeq(hist.events, LAMBDA ev : ev.fileType = r)

\* p <= q and p >= q on fractions
FracLeq(p, q) == p[1] * q[2] <= q[1] * p[2]

\* C13: with a progress sink exactly one event follows every block and
\* without one there is none; within a file the block count runs
\* 1, 2, .., totalBlocks with totalBlocks constant; the active file's
\* fraction is in [0, 0.5] if a sham file follows and in [0, 1] if not, the
\* sham file's in [0.5, 1].
C13_ProgressEvents ==
    call # NoCall =>
        /\ ~call.onProgress => hist.events = <<>>
        /\ call.onProgress =>
              \A r \in Roles :
                 LET evs == EventsOf(r)
                 IN  /\ Len(evs) = (IF fd[r].state = "none" THEN 0
                                    ELSE Len(files[PathOf(r, call)].data))
                     /\ \A i \in 1..Len(evs) :
                           /\ evs[i].block = i
                           /\ evs[i].totalBlocks = totalBlocksOf(call.quarters)
                           /\ i <= evs[i].totalBlocks
        /\ \A i \in 1..Len(hist.events) :
              LET ev == hist.events[i]
              IN  /\ FracLeq(<<0, 1>>, ev.progress)
                  /\ ev.fileType = "active" =>
                        FracLeq(ev.progress,
                                IF call.generateSham THEN <<1, 2>> ELSE <<1, 1>>)
                  /\ ev.fileType = "sham" =>
                        /\ FracLeq(<<1, 2>>, ev.progress)
                        /\ FracLeq(ev.progress, <<1, 1>>)
        /\ (pc = "done" /\ call.onProgress) =>
              \A r \in Roles :
                 (r = "active" \/ call.generateSham)
                    => Len(EventsOf(r)) = totalBlocksOf(call.quarters)

\* Both files written with a sink: every block of each reported
C13_Witness ==
    /\ pc = "done" /\ call.onProgress /\ call.generateSham
    /\ Len(EventsOf("active")) = totalBlocksOf(call.quarters)
    /\ Len(EventsOf("sham")) = totalBlocksOf(call.quarters)
    /\ totalBlocksOf(call.quarters) >= 4

\* The file of role r has been finalized and closed
FileDone(r) ==
    /\ fd[r].state = "closed"
    /\ files[PathOf(r, call)].hdrWrites = 2

\* C14: a run goes Idle -> GeneratingActive -> (GeneratingSham) -> Complete
\* or ends Failed: the sham file is not opened before the active file is
\* finalized and closed, a descriptor is returned only after every requested
\* file is finalized and closed, and none is returned when a step fails.
C14_RunOrder ==
    /\ fd["sham"].state # "none" => (call.generateSham /\ FileDone("active"))
    /\ role = "sham" => (call.generateSham /\ FileDone("active"))
    /\ result # NoResult =>
          /\ pc = "done"
          /\ FileDone("active")
          /\ call.generateSham => FileDone("sham")
          /\ ~call.generateSham => fd["sham"].state = "none"
    /\ pc \in {"throw", "failed", "rejected"} => result = NoResult

\* A run with both files has returned its descriptor
C14_Witness ==
    /\ pc = "done" /\ result # NoResult
    /\ call.generateSham
    /\ FileDone("active") /\ FileDone("sham")

\* C15: a request posted to /api/generate with generateSham = true yields an
\* active and a sham file and a result whose sham and shamBand are not null;
\* with generateSham = false both are null and no sham file is written.
C15_ShamOnRequest ==
    (req.via = "http" /\ pc = "done") =>
        IF req.generateSham
        THEN /\ result.sham # <<>>
             /\ result.shamBand # null
             /\ PathOf("active", call) \in DOMAIN files
             /\ PathOf("sham", call) \in DOMAIN files
        ELSE /\ result.sham = <<>>
             /\ result.shamBand = null
             /\ PathOf("sham", call) \notin DOMAIN files

(***************************************************************************)
(* The arithmetic of generateBlock.  A positive binary floating-point      *)
(* number is [bits, exp]: the integer whose binary digits are bits (the    *)
(* most significant first, a leading 1) times 2^exp.  A double has 53      *)
(* digits, an element of a Float32Array 24.                                *)
(***************************************************************************)
DoubleDigits == 53
SingleDigits == 24

\* the w binary digits of n, the most significant first
RECURSIVE BitsOf(_, _)
BitsOf(n, w) == IF w = 0 THEN <<>> ELSE Append(BitsOf(n \div 2, w - 1), n % 2)

\* the integer of at most 30 binary digits
RECURSIVE ValOf(_)
ValOf(s) == IF s = <<>> THEN 0 ELSE 2 * ValOf(Front(s)) + s[Len(s)]

Zeros(n) == [i \in 1..n |-> 0]

\* without the leading zeros
RECURSIVE Strip(_)
Strip(s) == IF s # <<>> /\ Head(s) = 0 THEN Strip(Tail(s)) ELSE s

\* the digits of a hexadecimal numeral
RECURSIVE HexBits(_)
HexBits(h) == IF h = <<>> THEN <<>> ELSE BitsOf(Head(h), 4) \o HexBits(Tail(h))

\* s + 1: the last 0 becomes 1 and the digits after it 0
IncBits(s) ==
    LET zs == {i \in 1..Len(s) : s[i] = 0}
        k  == IF zs = {} THEN 0 ELSE CHOOSE i \in zs : \A j \in zs : j <= i
    IN  IF k = 0 THEN <<1>> \o Zeros(Len(s))
        ELSE SubSeq(s, 1, k - 1) \o <<1>> \o Zeros(Len(s) - k)

\* Long arithmetic takes the digits six at a time
RadixDigits == SingleDigits \div 4
Radix == 2^RadixDigits

ToLimbs(digits) ==
    LET padded == Zeros((RadixDigits - (Len(digits) % RadixDigits)) % RadixDigits)
                      \o digits
    IN  [j \in 1..(Len(padded) \div RadixDigits) |->
            ValOf(SubSeq(padded, RadixDigits * (j - 1) + 1, RadixDigits * j))]

ToBits(limbs) ==
    [i \in 1..(RadixDigits * Len(limbs)) |->
        (limbs[(i - 1) \div RadixDigits + 1]
            \div 2^(RadixDigits - 1 - ((i - 1) % RadixDigits))) % 2]

\* Round to nearest, ties to even, keeping n digits; sticky says that digits
\* below the ones given are not all zero.
RoundTo(digits, n, sticky, exp) ==
    IF Len(digits) <= n THEN [bits |-> digits, exp |-> exp]
    ELSE LET keep == SubSeq(digits, 1, n)
             rest == SubSeq(digits, n + 1, Len(digits))
             low  == sticky \/ \E i \in 2..Len(rest) : rest[i] = 1
             up   == rest[1] = 1 /\ (low \/ keep[n] = 1)
             sum  == IF up THEN IncBits(keep) ELSE keep
         IN  [bits |-> SubSeq(sum, 1, n),
              exp  |-> exp + Len(rest) + (Len(sum) - n)]

\* Long division of the digits by the integer d < 2^24: quotient and remainder
RECURSIVE DivLimbs(_, _, _, _)
DivLimbs(limbs, d, r, q) ==
    IF limbs = <<>> THEN [q |-> q, r |-> r]
    ELSE Only({ DivLimbs(Tail(limbs), d, t % d, Append(q, t \div d)) :
                  t \in {Radix * r + Head(limbs)} })

DivBits(digits, d) ==
    Only({ [q |-> Strip(ToBits(dv.q)), r |-> dv.r] :
             dv \in {DivLimbs(ToLimbs(digits), d, 0, <<>>)} })

\* The digits times the integer m < 2^24, from the least significant digit
RECURSIVE MulLimbs(_, _, _, _)
MulLimbs(limbs, m, c, acc) ==
    IF limbs = <<>> THEN ToLimbs(BitsOf(c, SingleDigits)) \o acc
    ELSE Only({ MulLimbs(Front(limbs), m, t \div Radix, <<t % Radix>> \o acc) :
                  t \in {limbs[Len(limbs)] * m + c} })

MulBits(digits, m) == Strip(ToBits(MulLimbs(ToLimbs(digits), m, 0, <<>>)))

\* x / y in double arithmetic, y a single
FloatDiv(x, y) ==
    LET dv == DivBits(x.bits \o Zeros(SingleDigits + 2), ValOf(y.bits))
    IN  RoundTo(dv.q, DoubleDigits, dv.r # 0,
                x.exp - y.exp - (SingleDigits + 2))

\* y * s in double arithmetic, y a single
FloatMul(y, s) ==
    RoundTo(MulBits(s.bits, ValOf(y.bits)), DoubleDigits, FALSE,
            y.exp + s.exp)

\* the store into a Float32Array
ToFloat32(x) == RoundTo(x.bits, SingleDigits, FALSE, x.exp)

\* x <= y
FloatLeq(x, y) ==
    LET mx == Len(x.bits) + x.exp
        my == Len(y.bits) + y.exp
        w  == Max(Len(x.bits), Len(y.bits))
        xs == x.bits \o Zeros(w - Len(x.bits))
        ys == y.bits \o Zeros(w - Len(y.bits))
        df == {i \in 1..w : xs[i] # ys[i]}
    IN  IF mx # my THEN mx < my
        ELSE df = {} \/ xs[CHOOSE i \in df : \A j \in df : i <= j] = 0

FloatOne == [bits |-> <<1>>, exp |-> 0]

\* targetPeak = 0.80, the double 0x1.999999999999ap-1
targetPeak ==
    [bits |-> Strip(HexBits(<<1, 9, 9, 9, 9, 9, 9, 9, 9, 9, 9, 9, 9, 10>>)),
     exp  |-> 0 - DoubleDigits]

\* Math.min(1.0, q)
MinOne(q) == IF FloatLeq(FloatOne, q) THEN FloatOne ELSE q

\* The same without the limit
NormalizeUnlimited(peak) ==
    LET scale == FloatDiv(targetPeak, peak)
    IN  [scale |-> scale, peak |-> ToFloat32(FloatMul(peak, scale))]

\* The end of generateBlock: peak is the greatest |out[i]| after the ramps
\* (above the 1e-9 the search starts from), every sample is multiplied by
\* scale and stored in the Float32Array; the greatest one stays the greatest.
Normalize(peak) ==
    LET scale == MinOne(FloatDiv(targetPeak, peak))
    IN  [scale |-> scale, peak |-> ToFloat32(FloatMul(peak, scale))]

\* ---- the functions of generateBlock on their own ----
DspCall(op, in) == [op |-> op, in |-> in, done |-> FALSE, out |-> <<>>]

\* Peaks after the ramps: singles around 0.8, below and above it
RawPeaks ==
    { [bits |-> BitsOf(m, SingleDigits), exp |-> e] :
        m \in {8388608, 8388609, 11184811, 12345678, 13421772, 13421773,
               13421774, 16777215},
        e \in {0 - 28, 0 - 24, 0 - 23, 0 - 21, 0 - 18} }

NormalizeBlock ==
    /\ dsp.op = "normalize"
    /\ ~dsp.done
    /\ dsp' = [dsp EXCEPT !.done = TRUE, !.out = Normalize(dsp.in)]
    /\ UNCHANGED <<req, now, pc, call, matchKey, activeBandIdx, shamBandIdx,
                   role, rng, b, fd, files, http, client, result, hist, other,
                   ui>>

\* d = 1.0, the modulation depth
d == 1

\* modSin = k / ModSteps for k in -ModSteps..ModSteps
ModSteps == 2

\* 2^11 * lo <= 2^11 * n * f0 <= 2^11 * hi
InBand(n, u, band) ==
    /\ NF0Floor(n, u) >= band.lo * F0Scale
    /\ NF0Ceil(n, u) <= band.hi * F0Scale

\* The same with psi = pi * d * modSin
HarmonicUnshifted(n, u, bandIdx, mode, k) ==
    LET inBand == InBand(n, u, BandAt(bandIdx))
    IN  [inBand |-> inBand,
         A   |-> IF inBand /\ mode = "amplitude" THEN ModSteps + d * k
                 ELSE ModSteps,
         psi |-> IF inBand /\ mode = "phase" THEN d * k ELSE 0]

\* One sample of harmonic n in the synthesis loop: A in units of 1 / ModSteps,
\* psi in units of pi / ModSteps
Harmonic(n, u, bandIdx, mode, k) ==
    LET inBand == InBand(n, u, BandAt(bandIdx))
    IN  [inBand |-> inBand,
         A   |-> IF inBand /\ mode = "amplitude" THEN ModSteps + d * k
                 ELSE ModSteps,
         psi |-> IF inBand /\ mode = "phase" THEN ModSteps + d * k ELSE 0]

\* rng.nextUint() values for f0, from 96 Hz to just under 256 Hz
\* and on either side of 100, 125 and 250 Hz, where a carrier limit is all
\* but a multiple of f0
F0Draws ==
    { <<0, 0>>, <<0, 1>>, <<4660, 22136>>, <<16384, 0>>, <<26214, 26214>>,
      <<32768, 0>>, <<49152, 1>>, <<65535, 65535>>,
      <<1638, 26214>>, <<1638, 26215>>, <<11878, 26214>>, <<11878, 26215>>,
      <<63078, 27033>>, <<63078, 27034>> }

\* The harmonics of the loop next to the carrier limits and to the band edges
HarmonicsNear(u, band) ==
    { n \in nMinOf(u)..nMaxOf(u) :
        \/ n \in {nMinOf(u), nMaxOf(u)}
        \/ InBand(n, u, band) # InBand(n - 1, u, band)
        \/ InBand(n, u, band) # InBand(n + 1, u, band) }

HarmonicInputs ==
    UNION { { <<u, i, n>> : n \in HarmonicsNear(u, BandAt(i)) } :
              u \in F0Draws, i \in 0..(Len(BANDS) - 1) }

HarmonicCalls ==
    { DspCall("harmonic", [n |-> x[3], u |-> x[1], band |-> x[2],
                           mode |-> m, k |-> k]) :
        x \in HarmonicInputs, m \in {"amplitude", "phase"},
        k \in (0 - ModSteps)..ModSteps }

ModulateHarmonic ==
    /\ dsp.op = "harmonic"
    /\ ~dsp.done
    /\ dsp' = [dsp EXCEPT !.done = TRUE,
                          !.out = Harmonic(dsp.in.n, dsp.in.u, dsp.in.band,
                                           dsp.in.mode, dsp.in.k)]
    /\ UNCHANGED <<req, now, pc, call, matchKey, activeBandIdx, shamBandIdx,
                   role, rng, b, fd, files, http, client, result, hist, other,
                   ui>>

\* 0.5 * (1 - Math.cos(Math.PI * x)) for x = num / den in [0, 1]: exactly 0
\* at x = 0 (the cosine is 1), exactly 1 at x = 1 (Math.cos(Math.PI) is -1),
\* and strictly between the two elsewhere: with den = 44100 the cosine one
\* step from either end differs from it by 2.5e-9, far above the rounding.
RaisedCosine(num, den) ==
    [value |-> IF num = 0 THEN "0" ELSE IF num = den THEN "1" ELSE "between",
     x |-> <<num, den>>]

FullGain == [value |-> "1", x |-> <<1, 1>>]

\* The same with the ramp-in counted from 1
raisedCosineRampShifted(i, nRamp, nTotal) ==
    IF nRamp <= 0 THEN FullGain
    ELSE IF i < nRamp THEN RaisedCosine(i + 1, nRamp)
    ELSE IF i >= nTotal - nRamp THEN RaisedCosine(nTotal - 1 - i, nRamp)
    ELSE FullGain

raisedCosineRamp(i, nRamp, nTotal) ==
    IF nRamp <= 0 THEN FullGain
    ELSE IF i < nRamp THEN RaisedCosine(i, nRamp)
    ELSE IF i >= nTotal - nRamp THEN RaisedCosine(nTotal - 1 - i, nRamp)
    ELSE FullGain

\* rampN = Math.floor(fsHz * rampSec)
rampN == sampleRate * rampSec

\* Blocks of 4 s and remainders of 1, 2 and 3 s; in each the samples at the
\* ends of the block and of the ramps, and the middle one
SamplesOf(nTotal) ==
    { j \in {0, 1, rampN \div 2, rampN - 1, rampN, rampN + 1, nTotal \div 2,
             nTotal - rampN \div 2 - 1, nTotal - rampN \div 2,
             nTotal - rampN - 1, nTotal - rampN, nTotal - rampN + 1,
             nTotal - 2, nTotal - 1} : j >= 0 /\ j < nTotal }

\* and a remainder of half a second, shorter than the ramp
BlockLengths == {sampleRate * s : s \in 1..blockSec} \cup {sampleRate \div 2}

RampCalls ==
    UNION { { DspCall("ramp", [i |-> i, nRamp |-> rampN, nTotal |-> n]) :
                i \in SamplesOf(n) } : n \in BlockLengths }

\* the ramp loop of generateBlock at sample i
ApplyRamp ==
    /\ dsp.op = "ramp"
    /\ ~dsp.done
    /\ dsp' = [dsp EXCEPT !.done = TRUE,
                          !.out = raisedCosineRamp(dsp.in.i, dsp.in.nRamp,
                                                   dsp.in.nTotal)]
    /\ UNCHANGED <<req, now, pc, call, matchKey, activeBandIdx, shamBandIdx,
                   role, rng, b, fd, files, http, client, result, hist, other,
                   ui>>

\* nMin and nMax of a block from its draw of f0
HarmonicRange ==
    /\ dsp.op = "range"
    /\ ~dsp.done
    /\ dsp' = [dsp EXCEPT !.done = TRUE,
                          !.out = [nMin |-> nMinOf(dsp.in),
                                   nMax |-> nMaxOf(dsp.in)]]
    /\ UNCHANGED <<req, now, pc, call, matchKey, activeBandIdx, shamBandIdx,
                   role, rng, b, fd, files, http, client, result, hist, other,
                   ui>>

InitDsp ==
    /\ InitMain(ConcRequests, Clock)
    /\ other = NoOther
    /\ ui = NoUi
    /\ \/ dsp \in { DspCall("normalize", p) : p \in RawPeaks }
       \/ dsp \in HarmonicCalls
       \/ dsp \in RampCalls
       \/ dsp \in { DspCall("range", u) : u \in F0Draws }

NextDsp ==
    \/ NormalizeBlock
    \/ ModulateHarmonic
    \/ ApplyRamp
    \/ HarmonicRange

SpecDsp == InitDsp /\ [][NextDsp]_vars

\* single(targetPeak) = 0x1.99999ap-1, the single nearest to 0.80
TargetPeakSingle == ToFloat32(targetPeak)

\* C16 as stated: after normalization the greatest sample magnitude of a
\* block is at most targetPeak = 0.80, and the scale factor is at most 1.
C16_PeakWithinTarget ==
    (dsp.op = "normalize" /\ dsp.done) =>
        /\ FloatLeq(dsp.out.peak, targetPeak)
        /\ FloatLeq(dsp.out.scale, FloatOne)

\* C16 amended: the greatest sample magnitude is at most targetPeak rounded
\* to single precision (a block that was scaled down peaks exactly there),
\* and the scale factor is at most 1 and is 1 for a peak within targetPeak.
C16_PeakWithinSingleTarget ==
    (dsp.op = "normalize" /\ dsp.done) =>
        /\ FloatLeq(dsp.out.peak, TargetPeakSingle)
        /\ FloatLeq(dsp.out.scale, FloatOne)
        /\ FloatLeq(dsp.in, targetPeak) =>
              dsp.out.scale = FloatOne /\ dsp.out.peak = dsp.in
        /\ ~FloatLeq(dsp.in, targetPeak) => dsp.out.peak = TargetPeakSingle

\* a block louder than targetPeak was scaled down
C16_Witness ==
    /\ dsp.op = "normalize" /\ dsp.done
    /\ ~FloatLeq(dsp.in, targetPeak)
    /\ dsp.out.scale # FloatOne
    /\ ~FloatLeq(dsp.out.peak, targetPeak)

\* C17: a harmonic is in-band exactly when lo <= n * f0 <= hi, both ends
\* included; out of band A = 1 and psi = 0; in band, amplitude mode gives
\* A = 1 + d * m in [0, 2] with psi = 0 and phase mode gives A = 1 with
\* psi = pi * (1 + d * m) in [0, 2 pi].
C17_ModulationInBandOnly ==
    (dsp.op = "harmonic" /\ dsp.done) =>
        LET i == dsp.in
            o == dsp.out
            below == NF0Floor(i.n, i.u) < BandAt(i.band).lo * F0Scale
            above == NF0Ceil(i.n, i.u) > BandAt(i.band).hi * F0Scale
        IN  /\ o.inBand <=> ~(below \/ above)
            /\ ~o.inBand => o.A = ModSteps /\ o.psi = 0
            /\ (o.inBand /\ i.mode = "amplitude") =>
                  /\ o.A = ModSteps + d * i.k
                  /\ o.A \in 0..(2 * ModSteps)
                  /\ o.psi = 0
            /\ (o.inBand /\ i.mode = "phase") =>
                  /\ o.A = ModSteps
                  /\ o.psi = ModSteps + d * i.k
                  /\ o.psi \in 0..(2 * ModSteps)

\* an in-band harmonic in phase mode at the least modulation value, next to
\* an out-of-band one
C17_Witness ==
    /\ dsp.op = "harmonic" /\ dsp.done
    /\ dsp.out.inBand /\ dsp.in.mode = "phase"
    /\ dsp.in.k = 0 - ModSteps /\ dsp.out.psi = 0
    /\ ~InBand(dsp.in.n - 1, dsp.in.u, BandAt(dsp.in.band))

\* C18 as stated: in a block of N samples with a ramp of R samples the
\* multiplier is 0 at sample 0, exactly 1 at sample R, and exactly 1 at
\* every sample i with R <= i < N - R.
C18_RampBoundaries ==
    (dsp.op = "ramp" /\ dsp.done) =>
        /\ dsp.in.i = 0 => dsp.out.value = "0"
        /\ dsp.in.i = dsp.in.nRamp => dsp.out.value = "1"
        /\ (dsp.in.nRamp <= dsp.in.i /\ dsp.in.i < dsp.in.nTotal - dsp.in.nRamp)
              => dsp.out.value = "1"

\* C18 amended: the multiplier is 0 at sample 0 and exactly 1 at every
\* sample i with R <= i < N - R, so sample R has multiplier 1 when N > 2R;
\* in a block of N = 2R samples sample R is the first of the ramp-out, with
\* multiplier 0.5 * (1 - cos(pi * (R - 1) / R)) below 1.
C18_RampBoundariesLongBlocks ==
    (dsp.op = "ramp" /\ dsp.done) =>
        /\ dsp.in.i = 0 => dsp.out.value = "0"
        /\ (dsp.in.nRamp <= dsp.in.i /\ dsp.in.i < dsp.in.nTotal - dsp.in.nRamp)
              => dsp.out.value = "1"
        /\ (dsp.in.i = dsp.in.nRamp /\ dsp.in.nTotal > 2 * dsp.in.nRamp)
              => dsp.out.value = "1"
        /\ (dsp.in.i = dsp.in.nRamp /\ dsp.in.nTotal = 2 * dsp.in.nRamp)
              => /\ dsp.out.value = "between"
                 /\ dsp.out.x = <<dsp.in.nRamp - 1, dsp.in.nRamp>>

\* the ramp boundary sample of a 4 s block
C18_Witness ==
    /\ dsp.op = "ramp" /\ dsp.done
    /\ dsp.in.nTotal = sampleRate * blockSec
    /\ dsp.in.i = dsp.in.nRamp
    /\ dsp.out.value = "1"

\* C19: for every f0 that can be drawn (96 <= f0 < 256) the harmonic range
\* is not empty, nMin = ceil(1000 / f0) <= nMax = floor(16000 / f0), and
\* every n * f0 with nMin <= n <= nMax lies within 1000..16000 Hz.
C19_HarmonicRangeWithinCarrier ==
    (dsp.op = "range" /\ dsp.done) =>
        LET u == dsp.in
            o == dsp.out
        IN  /\ o.nMin <= o.nMax
            /\ \A n \in o.nMin..o.nMax :
                  /\ NF0Floor(n, u) >= carrierMinHz * F0Scale
                  /\ NF0Ceil(n, u) <= carrierMaxHz * F0Scale
            /\ NF0Floor(o.nMin - 1, u) < carrierMinHz * F0Scale
            /\ NF0Ceil(o.nMax + 1, u) > carrierMaxHz * F0Scale

\* the greatest f0 that can be drawn: harmonics 4 to 62
C19_Witness ==
    /\ dsp.op = "range" /\ dsp.done
    /\ dsp.in = <<Half - 1, Half - 1>>
    /\ dsp.out.nMin = 4 /\ dsp.out.nMax = 62

\* C20: the band table is exhaustive and well-formed: every key that
\* nearestMatchKeyKHz returns has a row in TABLE1_MAP, every band index of a
\* row that is not null is an index of the seven-band list, every band has
\* lo < hi, and the internal mapping error is reached for no frequency.
C20_BandTableExhaustive ==
    /\ pc # "throw"
    /\ pc = "open" => matchKey \in DOMAIN TABLE1_MAP
    /\ \A i \in 1..Len(MATCH_KEYS_KHZ) :
          /\ MATCH_KEYS_KHZ[i] \in DOMAIN TABLE1_MAP
          /\ \A ix \in {TABLE1_MAP[MATCH_KEYS_KHZ[i]].a1, TABLE1_MAP[MATCH_KEYS_KHZ[i]].a2,
                        TABLE1_MAP[MATCH_KEYS_KHZ[i]].c1, TABLE1_MAP[MATCH_KEYS_KHZ[i]].c2} :
                ix # null => ix \in 0..(Len(BANDS) - 1)
    /\ Len(BANDS) = 7
    /\ \A i \in 1..Len(BANDS) : BANDS[i].lo < BANDS[i].hi

\* NaN passed by a direct caller resolves to the first row, band 1-2k
C20_Witness ==
    /\ pc = "open"
    /\ call.tinnitusHz = NaNFreq
    /\ matchKey = MATCH_KEYS_KHZ[1]
    /\ matchKey \in DOMAIN TABLE1_MAP
    /\ BandAt(activeBandIdx).name = "1-2k"

\* The progress stream of the request has been opened
StreamOpen == req.via = "http" /\ req.useProgress /\ http.status = 200

Terminal == {"complete", "error"}

\* C21: a progress stream carries one start event, then progress events,
\* then exactly one terminal event (complete with the result, or error); it
\* is ended with the terminal event and nothing is written after that.
C21_StreamShape ==
    /\ [](StreamOpen =>
            LET evs == http.events
            IN  /\ Len(evs) >= 1
                /\ evs[1].type = "start"
                /\ \A i \in 2..Len(evs) :
                      /\ evs[i].type \in {"progress"} \cup Terminal
                      /\ evs[i].type \in Terminal => i = Len(evs)
                /\ http.ended <=> evs[Len(evs)].type \in Terminal
                /\ http.ended <=> pc \in {"done", "failed"}
                /\ (http.ended /\ evs[Len(evs)].type = "complete")
                      => /\ evs[Len(evs)].result = result
                         /\ result.kind = "result")
    /\ [][(StreamOpen /\ http.ended) => http' = http]_vars

\* a stream with start, four progress events and the result, ended
C21_Witness ==
    /\ StreamOpen /\ http.ended
    /\ Len(http.events) >= 6
    /\ http.events[1].type = "start"
    /\ http.events[2].type = "progress"
    /\ http.events[Len(http.events)].type = "complete"

\* C22: for every reference key and every combination of useAltActive and
\* useAltSham the band resolved for the sham file is a different band from
\* the band resolved for the active file.
C22_ShamBandDiffers ==
    /\ pc = "open" =>
          /\ shamBandIdx # activeBandIdx
          /\ BandAt(shamBandIdx) # BandAt(activeBandIdx)
    /\ \A i \in 1..Len(MATCH_KEYS_KHZ), aa \in BOOLEAN, as \in BOOLEAN :
          ShamIdx(TABLE1_MAP[MATCH_KEYS_KHZ[i]], as)
              # ActiveIdx(TABLE1_MAP[MATCH_KEYS_KHZ[i]], aa)

\* 4800 Hz with both alternates: active 2.8-5.7k, sham 1.4-2.8k
C22_Witness ==
    /\ pc = "open"
    /\ matchKey = 4800 /\ call.useAltActive /\ call.useAltSham
    /\ BandAt(activeBandIdx).name = "2.8-5.7k"
    /\ BandAt(shamBandIdx).name = "1.4-2.8k"

\* C23: within each block the generator is consumed in this order: first
\* the fundamental f0, then the two modulation phases p and q, then one
\* carrier phase per harmonic, 3 + (nMax - nMin + 1) draws in all.
C23_DrawOrder ==
    \A path \in DOMAIN files :
       \A k \in 1..Len(files[path].data) :
          LET prev == IF k = 1 THEN XorShift32(now)
                               ELSE files[path].data[k - 1].state
              blk  == files[path].data[k]
          IN  /\ blk.f0 = nextUint(prev)
              /\ blk.pPhase = nextUint(nextUint(prev))
              /\ blk.qPhase = nextUint(nextUint(nextUint(prev)))
              /\ blk.state = Skip(prev, 3 + (blk.nMax - blk.nMin + 1))

\* C24: in a 4 s block with rampSec = 1 at 44100 Hz the fade-in covers
\* exactly the first rampSec / 2 = 0.5 s (22050 samples) and the fade-out
\* exactly the last 0.5 s; the 3 s in between have multiplier 1.
C24_HalfSecondRamps ==
    (dsp.op = "ramp" /\ dsp.done /\ dsp.in.nTotal = sampleRate * blockSec) =>
        LET half == (sampleRate * rampSec) \div 2
        IN  /\ (half <= dsp.in.i /\ dsp.in.i < dsp.in.nTotal - half)
                  => dsp.out.value = "1"
            /\ (0 < dsp.in.i /\ dsp.in.i < half) => dsp.out.value = "between"
            /\ (dsp.in.nTotal - half <= dsp.in.i /\ dsp.in.i < dsp.in.nTotal - 1)
                  => dsp.out.value = "between"

\* C25: over one request the progress fractions delivered to the sink never
\* decrease and the last event before completion carries fraction exactly
\* 1; when a sham file is generated its events run from above 0.5 up to 1.
C25_ProgressReachesOne ==
    call # NoCall =>
        LET evs == hist.events
        IN  /\ \A i \in 1..(Len(evs) - 1) :
                  FracLeq(evs[i].progress, evs[i + 1].progress)
            /\ \A i \in 1..Len(evs) :
                  evs[i].fileType = "sham" =>
                     /\ ~FracLeq(evs[i].progress, <<1, 2>>)
                     /\ FracLeq(evs[i].progress, <<1, 1>>)
            /\ (pc = "done" /\ evs # <<>>) =>
                  /\ FracLeq(<<1, 1>>, evs[Len(evs)].progress)
                  /\ FracLeq(evs[Len(evs)].progress, <<1, 1>>)

(***************************************************************************)
(* The pitch-match card of Home.jsx.  A render gives every handler the     *)
(* state of that render (ui.st); the set-calls made while a handler runs   *)
(* are collected (ui.set) and committed when the handler is over, with a   *)
(* new render.  ui.next is the function being called, ui.depth the calls   *)
(* that have not returned, ui.limit the depth the engine's stack allows.   *)
(* Octaves are in hundredths, factors in thousandths.                      *)
(***************************************************************************)
maxTrials == 16
MaxClicks == 2
MaxStack  == 30

clamp(v, lo, hi) == Max(lo, IF hi <= v THEN hi ELSE v)

\* Math.pow(2, x) for the exponents of the first trial, to the thousandth
pow2(x) == CASE x = 0 - 100 -> 500 [] x = 0 - 50 -> 707 [] x = 50 -> 1414

\* useState(...): estimateHz, stepOct, trial, lastPair, upperLimitHz
NewCard ==
    [estimateHz |-> 8000, stepOct |-> 100, trial |-> 0, lastPair |-> <<>>,
     upperLimitHz |-> null]

\* nextABTrial: the pair around the estimate
ABPair(st) ==
    LET half == st.stepOct \div 2
        a0 == clamp((st.estimateHz * pow2(0 - half)) \div 1000, 500, 16000)
        b0 == clamp((st.estimateHz * pow2(half)) \div 1000, 500, 16000)
        a1 == IF a0 > b0 THEN b0 ELSE a0
        b1 == IF a0 > b0 THEN a0 ELSE b0
        b2 == IF (st.upperLimitHz * 9) \div 10 <= b1
              THEN (st.upperLimitHz * 9) \div 10 ELSE b1
    IN  IF st.upperLimitHz # null /\ b1 > st.upperLimitHz
        THEN [AHz |-> clamp((b2 * pow2(0 - st.stepOct)) \div 1000, 500, 16000),
              BHz |-> b2]
        ELSE [AHz |-> a1, BHz |-> b1]

Others == <<req, now, pc, call, matchKey, activeBandIdx, shamBandIdx, role, rng,
            b, fd, files, http, client, result, hist, other, dsp>>

Running == ui.next \in {"startAB", "nextABTrial", "playCurrentTrial"}

\* onClick={startAB}: Start Pitch Match, or Restart
ClickStart ==
    /\ ui.next = "idle" /\ ui.clicks < MaxClicks
    /\ ui' = [ui EXCEPT !.next = "startAB", !.clicks = @ + 1, !.calls = 0,
                        !.played = <<>>, !.error = FALSE]
    /\ UNCHANGED Others

\* onClick={playCurrentTrial}: Replay, shown when trial > 0 && lastPair
ClickReplay ==
    /\ ui.next = "idle" /\ ui.clicks < MaxClicks
    /\ ui.st.trial > 0 /\ ui.st.lastPair # <<>> /\ ui.st.trial <= maxTrials
    /\ ui' = [ui EXCEPT !.next = "playCurrentTrial", !.clicks = @ + 1,
                        !.calls = 0, !.played = <<>>, !.error = FALSE]
    /\ UNCHANGED Others

startAB ==
    /\ ui.next = "startAB" /\ ui.depth < ui.limit
    /\ ui' = [ui EXCEPT !.set = [@ EXCEPT !.trial = 0, !.stepOct = 100,
                                          !.upperLimitHz = null],
                        !.depth = @ + 1, !.calls = @ + 1,
                        !.next = "nextABTrial"]
    /\ UNCHANGED Others

nextABTrial ==
    /\ ui.next = "nextABTrial" /\ ui.depth < ui.limit
    /\ LET newTrial == ui.st.trial + 1
       IN  ui' = IF newTrial > maxTrials
                 THEN [ui EXCEPT !.set = [@ EXCEPT !.trial = newTrial],
                                 !.depth = @ + 1, !.calls = @ + 1,
                                 !.next = "return"]
                 ELSE [ui EXCEPT !.set = [@ EXCEPT !.trial = newTrial,
                                                   !.lastPair = ABPair(ui.st)],
                                 !.depth = @ + 1, !.calls = @ + 1,
                                 !.next = "playCurrentTrial"]
    /\ UNCHANGED Others

playCurrentTrial ==
    /\ ui.next = "playCurrentTrial" /\ ui.depth < ui.limit
    /\ ui' = IF ui.st.lastPair = <<>>
             THEN [ui EXCEPT !.depth = @ + 1, !.calls = @ + 1,
                             !.next = IF ui.st.trial = 0 THEN "startAB"
                                                         ELSE "nextABTrial"]
             ELSE [ui EXCEPT !.depth = @ + 1, !.calls = @ + 1,
                             !.played = Append(@, ui.st.lastPair),
                             !.next = "return"]
    /\ UNCHANGED Others

\* The call does not fit on the stack: a RangeError leaves every caller
StackOverflow ==
    /\ Running /\ ui.depth >= ui.limit
    /\ ui' = [ui EXCEPT !.error = TRUE, !.next = "return"]
    /\ UNCHANGED Others

\* The handler is over: React commits the collected state and renders
Commit ==
    /\ ui.next = "return"
    /\ ui' = [ui EXCEPT !.st = ui.set, !.depth = 0, !.next = "idle"]
    /\ UNCHANGED Others

InitAB ==
    /\ InitMain(ConcRequests, Clock)
    /\ other = NoOther
    /\ dsp = NoDsp
    /\ \E lim \in (MaxStack - 2)..MaxStack :
          ui = [next |-> "idle", st |-> NewCard, set |-> NewCard, depth |-> 0,
                limit |-> lim, calls |-> 0, clicks |-> 0, played |-> <<>>,
                error |-> FALSE]

NextAB ==
    \/ ClickStart \/ ClickReplay
    \/ startAB \/ nextABTrial \/ playCurrentTrial
    \/ StackOverflow \/ Commit

SpecAB == InitAB /\ [][NextAB]_vars

\* C26: from the initial assessment state (trial = 0, no pair) the Start
\* Pitch Match handler startAB terminates after a bounded number of calls
\* among startAB, nextABTrial and playCurrentTrial, leaving trial = 1 and
\* one A/B pair selected and played once, A the lower and B the higher.
C26_StartABTerminates ==
    (ui.next = "idle" /\ ui.clicks = 1) =>
        /\ ~ui.error
        /\ ui.calls <= 3
        /\ ui.st.trial = 1
        /\ ui.st.lastPair # <<>>
        /\ ui.played = <<ui.st.lastPair>>
        /\ ui.st.lastPair.AHz < ui.st.lastPair.BHz

\* shouldUseAltBand of the wizard: the loop of nearestMatchKeyKHz over a
\* copy of the key list, then best >= 11.0
shouldUseAltBand(freq) == nearestMatchKeyKHz(freq) >= 11000

\* C27: for every frequency for which shouldUseAltBand returns true the
\* row of its key has an alternate active band, so the useAltActive flag
\* the wizard sends makes the generator use a band other than the
\* preferred one.
C27_AltFlagTakesEffect ==
    (pc = "open" /\ call.useAltActive /\ shouldUseAltBand(call.tinnitusHz)) =>
        /\ TABLE1_MAP[matchKey].a2 # null
        /\ activeBandIdx # TABLE1_MAP[matchKey].a1

\* C28: for every seed the XorShift32 state is non-zero after construction
\* and stays non-zero after any number of nextUint calls.
C28_StateNeverZero ==
    pc = "rng" => rng # <<0, 0>>

\* C29: for every target frequency from 1000 to 16000 Hz and either value
\* of useAltActive the band resolved for the active file contains the
\* target: lo <= target <= hi.
C29_ActiveBandContainsTarget ==
    (/\ pc = "open"
     /\ call.tinnitusHz.kind = "num"
     /\ call.tinnitusHz.hz >= 1000
     /\ call.tinnitusHz.hz <= 16000) =>
        /\ BandAt(activeBandIdx).lo <= call.tinnitusHz.hz
        /\ call.tinnitusHz.hz <= BandAt(activeBandIdx).hi

\* 7350 Hz, half way between the keys 6.7 and 8.0, with the alternate band
\* of 6.7 kHz: 4-8k
C29_Witness ==
    /\ pc = "open"
    /\ call.tinnitusHz = Num(7350) /\ call.useAltActive
    /\ matchKey = 6700
    /\ BandAt(activeBandIdx).name = "4-8k"

\* C30: every block that generateFile writes, a remainder block shorter
\* than the ramp included, starts and ends at envelope multiplier 0: its
\* first and its last sample are faded to zero.
C30_BlocksStartAndEndAtZero ==
    (dsp.op = "ramp" /\ dsp.done) =>
        /\ dsp.in.i = 0 => dsp.out.value = "0"
        /\ dsp.in.i = dsp.in.nTotal - 1 => dsp.out.value = "0"

=============================================================================
